---- MODULE Spec2Model ----
(***************************************************************************)
(* The override dashboard of src/app.py: a Streamlit script that is run    *)
(* top to bottom once per user interaction.  One run parses the "module"   *)
(* query parameter, reads the Override_Ref catalog, selects a table and    *)
(* its editable column, resolves the primary key, fetches the source       *)
(* table, shows it in an editable grid and, when "Submit Updates" was      *)
(* clicked, writes every changed row: an UPDATE of the source table and an *)
(* INSERT into the target table.  Every store statement is one step.       *)
(***************************************************************************)
EXTENDS Integers, Sequences, FiniteSets, TLC

\* ---------------------------------------------------------------- bounds
MaxRows == 2            \* rows of the initial source table
MaxSubmitClock == 2     \* the users interact with the page only while clock < this

\* ---------------------------------------------------------------- values
Sessions == {"s1", "s2"}

NULL == "<NULL>"        \* a missing cell: None / NaN in the pandas frame
NoEdit == "<unedited>"  \* a grid cell the user has not touched

\* f"'{val}'" (lines 63, 66, 82): the text that is put between the quotes of
\* the SQL literal.  None is formatted as the four letters None.
PyStr(v) == IF v = NULL THEN "None" ELSE v

\* str.upper() (lines 39, 144) on the column names that occur; unquoted SQL
\* identifiers are resolved the same way by the store.
Upper(c) == IF c = "amount" THEN "AMOUNT" ELSE c

Columns == {"AS_OF_DATE", "PORTFOLIO", "PORTFOLIO_SEGMENT", "CATEGORY", "AMOUNT"}

SourceTableNames == {"fact_orders", "fact_trades"}
TargetTableNames == {"fact_orders_override", "fact_trades_override"}
TableNames == SourceTableNames \cup TargetTableNames \cup {"Override_Ref"}

\* The Override_Ref table (columns as read at lines 48-49).
Entry(m, n, src, tgt, col) ==
    [MODULE |-> m, MODULE_NAME |-> n, SOURCE_TABLE |-> src,
     TARGET_TABLE |-> tgt, EDITABLE_COLUMN |-> col]

CatalogRows ==
    << Entry(1, "Lending", "fact_orders", "fact_orders_override", "CATEGORY"),
       Entry(1, "Lending", "fact_trades", "fact_trades_override", "AMOUNT"),
       Entry(2, "Risk", "fact_orders", "fact_orders_override", "amount") >>

\* ------------------------------------------------------- module parameter
Digits == {"0", "1", "2", "3"}
DigitVal(c) ==
    CASE c = "0" -> 0 [] c = "1" -> 1 [] c = "2" -> 2 [] c = "3" -> 3 [] OTHER -> 0

\* st.query_params: the key is absent, or holds a string.  The strings tried:
\* empty, one digit, several digits, not a number.
ModuleTexts ==
    {<< >>, <<"0">>, <<"1">>, <<"2">>, <<"3">>, <<"1", "2">>, <<"x">>}
QueryParams ==
    {[present |-> FALSE, text |-> << >>]}
        \cup {[present |-> TRUE, text |-> t] : t \in ModuleTexts}

\* int(text): defined on the non-empty digit strings, ValueError otherwise.
IsIntLiteral(t) == Len(t) > 0 /\ \A i \in 1..Len(t) : t[i] \in Digits
RECURSIVE PyInt(_)
PyInt(t) == IF Len(t) = 0 THEN 0
            ELSE 10 * PyInt(SubSeq(t, 1, Len(t) - 1)) + DigitVal(t[Len(t)])

\* ------------------------------------------------------------------ rows
CategoryValues == {"A"}
AmountValues == {"10", NULL}
Segments == <<"S1", "S2", "S3", "S4">>
SourceRow(seg, cat, amt) ==
    [AS_OF_DATE |-> "D1", PORTFOLIO |-> "P1", PORTFOLIO_SEGMENT |-> seg,
     CATEGORY |-> cat, AMOUNT |-> amt]

\* what a user types into a cell of the editable column: each user of the
\* model has one new value per column
TypedValues(s, col) ==
    IF col = "CATEGORY" THEN {IF s = "s1" THEN "B" ELSE "C"}
    ELSE {IF s = "s1" THEN "20" ELSE "30"}

PrimaryKey == {"AS_OF_DATE", "PORTFOLIO", "PORTFOLIO_SEGMENT", "CATEGORY"}

\* the source tables an analyst may find: up to MaxRows rows, one per
\* portfolio segment, so that the primary key identifies a row
SourceInits ==
    UNION { { [i \in 1..n |-> SourceRow(Segments[i], cat[i], amt[i])] :
                cat \in [1..n -> CategoryValues], amt \in [1..n -> AmountValues] } :
            n \in 0..MaxRows }

VARIABLES
    db,                 \* the store: table name -> sequence of rows
    clock,              \* the store's CURRENT_TIMESTAMP / the wall clock
    stmt_failed,       \* the store has rejected a statement (36-93)
    query_params,       \* per session: the module query parameter
    pc,                 \* per session: the position of the script run
    button,             \* per session: "Submit Updates" was clicked for this run
    table_choice,       \* per session: state of the "Select Table" selectbox
    editor,             \* per session: state of the data_editor widget
    session_state,      \* per session: st.session_state.last_updated
    selected_module, module_tables_df, selected_table, target_table_name,
    selected_column, source_df, edited_df, changed_rows, row_i, last_updated,
    log,                \* per session: store statements issued by the current run
    outcome             \* per session: the message that ends the current run

storeVars == <<db, clock>>
noStmtVars == <<db, clock, stmt_failed>>   \* the frame of a step without a statement
widgetVars == <<query_params, table_choice, editor, session_state>>
runVars == <<selected_module, module_tables_df, selected_table, target_table_name,
             selected_column, source_df, edited_df, changed_rows, row_i,
             last_updated>>
vars == <<db, clock, stmt_failed, query_params, pc, button, table_choice, editor, session_state,
          selected_module, module_tables_df, selected_table, target_table_name,
          selected_column, source_df, edited_df, changed_rows, row_i, last_updated,
          log, outcome>>
\* ------------------------------------------------------------- the store
\* UPDATE <table> SET <col> = '<new>' WHERE k1 = '<v1>' AND ... (lines 63-71):
\* every row whose key columns equal the literals gets the literal as its
\* new value.  A NULL cell equals no literal.
SqlUpdate(rows, set_col, new_literal, where) ==
    [i \in 1..Len(rows) |->
        IF \A c \in DOMAIN where : rows[i][Upper(c)] = where[c]
        THEN [rows[i] EXCEPT ![Upper(set_col)] = new_literal]
        ELSE rows[i]]

\* INSERT INTO <table> (<cols>, AS_AT_DATE, RECORD_FLAG)
\* VALUES (<literals>, CURRENT_TIMESTAMP(), 'O') (lines 81-89)
SqlInsertOverwriting(rows, literals, now) ==
    <<[data |-> literals, AS_AT_DATE |-> now, RECORD_FLAG |-> "O"]>>
SqlInsert(rows, literals, now) ==
    Append(rows, [data |-> literals, AS_AT_DATE |-> now, RECORD_FLAG |-> "O"])

\* one statement of a run as the store saw it
Stmt(op, table, ok, row) == [op |-> op, table |-> table, ok |-> ok, row |-> row]

\* --------------------------------------------------------- pure functions
\* fetch_override_ref_data (lines 46-57) on a catalog that was read: the
\* filter is applied when selected_module is truthy.
Filter(df, module) ==
    LET match(e) == e.MODULE = module IN SelectSeq(df, match)
fetch_override_ref_data(df, module) ==
    IF module # 0 THEN Filter(df, module) ELSE df

\* Series.unique(): the distinct values in order of first appearance
RECURSIVE Unique(_)
Unique(q) ==
    IF q = << >> THEN << >>
    ELSE LET front == Unique(SubSeq(q, 1, Len(q) - 1))
             x == q[Len(q)]
         IN IF \E i \in 1..Len(front) : front[i] = x THEN front ELSE Append(front, x)

Column(df, c) == [i \in 1..Len(df) |-> df[i][c]]

\* the lookup of lines 147-153
RegisteredTables ==
    {"fact_portfolio_perf", "fact_income", "fact_msme", "fact_orders", "fact_customers"}
primary_key_cols_always(table) ==
    <<"AS_OF_DATE", "PORTFOLIO", "PORTFOLIO_SEGMENT", "CATEGORY">>
primary_key_cols(table) ==
    IF table \in RegisteredTables
    THEN <<"AS_OF_DATE", "PORTFOLIO", "PORTFOLIO_SEGMENT", "CATEGORY">>
    ELSE << >>

\* the data_editor widget (lines 184-190): its state holds the cells edited,
\* the rows added and the rows deleted, and is applied to the frame passed in.
\* A frame is a sequence of labelled rows; a fetched frame is labelled 1..n.
EmptyEditor ==
    [key |-> <<"", "">>, edited_rows |-> [i \in 1..MaxRows |-> NoEdit],
     added_rows |-> 0, deleted_rows |-> {}]
BlankRow == [c \in Columns |-> NULL]
data_editor(df, ed, col) ==
    LET cell(i) == IF i \in DOMAIN ed.edited_rows /\ ed.edited_rows[i] # NoEdit
                   THEN [df[i] EXCEPT ![col] = ed.edited_rows[i]]
                   ELSE df[i]
        all == [i \in 1..Len(df) |-> [idx |-> i, row |-> cell(i)]]
        kept(e) == e.idx \notin ed.deleted_rows
        added == [k \in 1..ed.added_rows |-> [idx |-> Len(df) + k, row |-> BlankRow]]
    IN SelectSeq(all, kept) \o added

\* Series != Series (line 196): an element-wise comparison in which a missing
\* value differs from everything, itself included.
Ne(a, b) == a = NULL \/ b = NULL \/ a # b

\* the comparison raises unless both frames carry the same labels
SameLabels(edited, source) ==
    /\ Len(edited) = Len(source)
    /\ \A i \in 1..Len(edited) : edited[i].idx = i

\* edited_df[edited_df[col] != source_df[col]] (line 196)
ChangedRows(edited, source, col) ==
    LET differs(e) == Ne(e.row[col], source[e.idx][col])
    IN SelectSeq(edited, differs)

\* ------------------------------------------------------------------ Init
\* The sessions in Open have just been opened and their first run is about to
\* start; the others stay closed.
InitOpen(Open) ==
    /\ \E rows \in SourceInits :
          db = [t \in TableNames |->
                  CASE t = "Override_Ref" -> CatalogRows
                    [] t = "fact_orders" -> rows
                    [] t = "fact_trades" ->
                          <<[AS_OF_DATE |-> "D1", PORTFOLIO |-> "P1",
                             PORTFOLIO_SEGMENT |-> "S1", CATEGORY |-> "A",
                             AMOUNT |-> "10"]>>
                    [] OTHER -> << >>]
    /\ clock = 1
    /\ stmt_failed = FALSE
    /\ query_params \in [Sessions -> QueryParams]
    /\ \A s \in Sessions \ Open : query_params[s] = [present |-> FALSE, text |-> << >>]
    /\ pc = [s \in Sessions |-> IF s \in Open THEN "params" ELSE "closed"]
    /\ button = [s \in Sessions |-> FALSE]
    /\ table_choice = [s \in Sessions |-> ""]
    /\ editor = [s \in Sessions |-> EmptyEditor]
    /\ session_state = [s \in Sessions |-> {}]
    /\ selected_module = [s \in Sessions |-> 0]
    /\ module_tables_df = [s \in Sessions |-> << >>]
    /\ selected_table = [s \in Sessions |-> ""]
    /\ target_table_name = [s \in Sessions |-> ""]
    /\ selected_column = [s \in Sessions |-> ""]
    /\ source_df = [s \in Sessions |-> << >>]
    /\ edited_df = [s \in Sessions |-> << >>]
    /\ changed_rows = [s \in Sessions |-> << >>]
    /\ row_i = [s \in Sessions |-> 1]
    /\ last_updated = [s \in Sessions |-> 0]
    /\ log = [s \in Sessions |-> << >>]
    /\ outcome = [s \in Sessions |-> "running"]

Init == InitOpen({"s1"})

\* ------------------------------------------------------ user interactions
\* Every interaction with a widget reruns the script from the top; the
\* script's own variables start afresh, the widget and session state stay.
Rerun(s, clicked) ==
    /\ pc' = [pc EXCEPT ![s] = "params"]
    /\ button' = [button EXCEPT ![s] = clicked]
    /\ log' = [log EXCEPT ![s] = << >>]
    /\ outcome' = [outcome EXCEPT ![s] = "running"]
    /\ selected_module' = [selected_module EXCEPT ![s] = 0]
    /\ module_tables_df' = [module_tables_df EXCEPT ![s] = << >>]
    /\ selected_table' = [selected_table EXCEPT ![s] = ""]
    /\ target_table_name' = [target_table_name EXCEPT ![s] = ""]
    /\ selected_column' = [selected_column EXCEPT ![s] = ""]
    /\ source_df' = [source_df EXCEPT ![s] = << >>]
    /\ edited_df' = [edited_df EXCEPT ![s] = << >>]
    /\ changed_rows' = [changed_rows EXCEPT ![s] = << >>]
    /\ row_i' = [row_i EXCEPT ![s] = 1]
    /\ last_updated' = [last_updated EXCEPT ![s] = 0]

\* which widgets the finished run has put on the page
SelectboxShown(s) ==
    outcome[s] \in {"no_pk", "no_data", "displayed", "no_changes", "success", "error"}
EditorShown(s) ==
    outcome[s] \in {"displayed", "no_changes", "success", "error"}

\* st.selectbox("Select Table", available_tables), line 132
UserSelectsTable(s) ==
    /\ pc[s] = "idle" /\ SelectboxShown(s)
    /\ clock < MaxSubmitClock
    /\ \E i \in 1..Len(module_tables_df[s]) :
          /\ module_tables_df[s][i].SOURCE_TABLE # selected_table[s]
          /\ table_choice' = [table_choice EXCEPT ![s] = module_tables_df[s][i].SOURCE_TABLE]
    /\ Rerun(s, FALSE)
    /\ UNCHANGED <<noStmtVars, query_params, editor, session_state>>

\* the grid of line 184: a cell of the one unlocked column is overwritten
UserEditsCellAutosave(s) ==
    /\ pc[s] = "idle" /\ EditorShown(s)
    /\ clock < MaxSubmitClock
    /\ \E k \in 1..Len(edited_df[s]) :
       \E v \in TypedValues(s, Upper(selected_column[s])) :
          LET e == edited_df[s][k] IN
          /\ e.idx \in 1..MaxRows
          /\ v # e.row[Upper(selected_column[s])]
          /\ editor' = [editor EXCEPT ![s].edited_rows[e.idx] = v]
          /\ db' = [db EXCEPT ![selected_table[s]] =
                      SqlUpdate(@, selected_column[s], v,
                                [c \in {"PORTFOLIO_SEGMENT"} |-> PyStr(e.row[c])])]
    /\ Rerun(s, FALSE)
    /\ UNCHANGED <<clock, stmt_failed, query_params, table_choice, session_state>>
UserEditsCell(s) ==
    /\ pc[s] = "idle" /\ EditorShown(s)
    /\ clock < MaxSubmitClock
    /\ \E k \in 1..Len(edited_df[s]) :
       \E v \in TypedValues(s, Upper(selected_column[s])) :
          LET e == edited_df[s][k] IN
          /\ e.idx \in 1..MaxRows
          /\ v # e.row[Upper(selected_column[s])]
          /\ editor' = [editor EXCEPT ![s].edited_rows[e.idx] = v]
    /\ Rerun(s, FALSE)
    /\ UNCHANGED <<noStmtVars, query_params, table_choice, session_state>>

\* num_rows="dynamic" (line 187): the grid lets the user add a row ...
UserAddsRow(s) ==
    /\ pc[s] = "idle" /\ EditorShown(s)
    /\ clock < MaxSubmitClock
    /\ editor[s].added_rows = 0
    /\ editor' = [editor EXCEPT ![s].added_rows = 1]
    /\ Rerun(s, FALSE)
    /\ UNCHANGED <<noStmtVars, query_params, table_choice, session_state>>

\* ... and delete one (the user of the model deletes the last row)
UserDeletesRow(s) ==
    /\ pc[s] = "idle" /\ EditorShown(s)
    /\ clock < MaxSubmitClock
    /\ Len(source_df[s]) \notin editor[s].deleted_rows
    /\ editor' = [editor EXCEPT ![s].deleted_rows = @ \cup {Len(source_df[s])}]
    /\ Rerun(s, FALSE)
    /\ UNCHANGED <<noStmtVars, query_params, table_choice, session_state>>

\* st.button("Submit Updates"), line 193
UserClicksSubmit(s) ==
    /\ pc[s] = "idle" /\ EditorShown(s)
    /\ clock < MaxSubmitClock
    /\ Rerun(s, TRUE)
    /\ UNCHANGED <<noStmtVars, widgetVars>>

\* ------------------------------------------------------------ the script
\* st.stop() after an error message, or an exception nothing catches: the run
\* ends, and the widgets it did not reach lose their state.
Stop(s, message) ==
    /\ pc' = [pc EXCEPT ![s] = "idle"]
    /\ outcome' = [outcome EXCEPT ![s] = message]
    /\ editor' = [editor EXCEPT ![s] = EmptyEditor]

\* lines 97-114: the module query parameter.  The result is the run's
\* message when it stops here, and "ok" when it goes on.
ParsedModule(qp) ==
    IF ~qp.present THEN [message |-> "no_module", module |-> 0]        \* 106-108
    ELSE IF qp.text = << >> THEN [message |-> "uncaught", module |-> 0] \* ''[0], 101
    ELSE LET first == <<qp.text[1]>> IN                                 \* line 101
         IF IsIntLiteral(first)
         THEN [message |-> "ok", module |-> PyInt(first)]               \* line 111
         ELSE [message |-> "invalid_module", module |-> 0]              \* 112-114

\* lines 97-114 when the run stops there
ModuleRejected(s) ==
    /\ pc[s] = "params"
    /\ ParsedModule(query_params[s]).message # "ok"
    /\ Stop(s, ParsedModule(query_params[s]).message)
    /\ UNCHANGED <<noStmtVars, query_params, button, table_choice, session_state,
                   runVars, log>>

\* lines 97-122 with fetch_override_ref_data, lines 46-57: the module is
\* accepted and the catalog is read; a failed read yields the empty frame
FetchCatalog(s) ==
    /\ pc[s] = "params"
    /\ ParsedModule(query_params[s]).message = "ok"
    /\ \E ok \in BOOLEAN :
          LET module == ParsedModule(query_params[s]).module
              df == IF ok THEN fetch_override_ref_data(db["Override_Ref"], module)
                    ELSE << >>
          IN /\ selected_module' = [selected_module EXCEPT ![s] = module]
             /\ log' = [log EXCEPT ![s] = Append(@, Stmt("SELECT", "Override_Ref", ok, 0))]
             /\ stmt_failed' = (stmt_failed \/ ~ok)
             /\ module_tables_df' = [module_tables_df EXCEPT ![s] = df]
             /\ IF df = << >>
                THEN Stop(s, "unknown_module")                \* lines 120-122
                ELSE /\ pc' = [pc EXCEPT ![s] = "select"]
                     /\ UNCHANGED <<outcome, editor>>
    /\ UNCHANGED <<storeVars, query_params, button, table_choice, session_state,
                   selected_table, target_table_name, selected_column, source_df,
                   edited_df, changed_rows, row_i, last_updated>>

\* lines 124-144: table, target table and editable column of the run
Selection(df, choice) ==
    LET available_tables == Unique(Column(df, "SOURCE_TABLE"))
        table == IF \E i \in 1..Len(available_tables) : available_tables[i] = choice
                 THEN choice
                 ELSE available_tables[1]
        of_table(e) == e.SOURCE_TABLE = table
        table_info_df == SelectSeq(df, of_table)
        editable_columns == Unique(Column(table_info_df, "EDITABLE_COLUMN"))
    IN [selected_table |-> table,
        target_table_name |-> table_info_df[1].TARGET_TABLE,
        selected_column |-> editable_columns[1]]

Selected(s) ==
    LET sel == Selection(module_tables_df[s], table_choice[s])
    IN /\ selected_table' = [selected_table EXCEPT ![s] = sel.selected_table]
       /\ table_choice' = [table_choice EXCEPT ![s] = sel.selected_table]
       /\ target_table_name' = [target_table_name EXCEPT ![s] = sel.target_table_name]
       /\ selected_column' = [selected_column EXCEPT ![s] = sel.selected_column]

\* lines 124-157 when the table has no registered primary key
KeyUnknown(s) ==
    /\ pc[s] = "select"
    /\ primary_key_cols(Selection(module_tables_df[s], table_choice[s]).selected_table)
          = << >>
    /\ Selected(s)
    /\ Stop(s, "no_pk")                                       \* lines 155-157
    /\ UNCHANGED <<noStmtVars, query_params, button, session_state, selected_module,
                   module_tables_df, source_df, edited_df, changed_rows, row_i,
                   last_updated, log>>

\* lines 124-193 and 226-227 with fetch_data, lines 36-43: the key is known,
\* the source table is read and shown in the grid
FetchSource(s) ==
    /\ pc[s] = "select"
    /\ primary_key_cols(Selection(module_tables_df[s], table_choice[s]).selected_table)
          # << >>
    /\ Selected(s)
    /\ \E ok \in BOOLEAN :
          LET sel == Selection(module_tables_df[s], table_choice[s])
              df == IF ok THEN db[sel.selected_table] ELSE << >>
              key == <<sel.selected_table, sel.selected_column>>
              ed == IF editor[s].key = key THEN editor[s]
                    ELSE [EmptyEditor EXCEPT !.key = key]
          IN /\ log' = [log EXCEPT ![s] =
                          Append(@, Stmt("SELECT", sel.selected_table, ok, 0))]
             /\ stmt_failed' = (stmt_failed \/ ~ok)
             /\ source_df' = [source_df EXCEPT ![s] = df]
             /\ IF df = << >>
                THEN /\ outcome' = [outcome EXCEPT ![s] = "no_data"]
                     /\ editor' = [editor EXCEPT ![s] = EmptyEditor]
                     /\ pc' = [pc EXCEPT ![s] = "tab2"]
                     /\ UNCHANGED edited_df
                ELSE /\ editor' = [editor EXCEPT ![s] = ed]
                     /\ edited_df' = [edited_df EXCEPT ![s] =
                            data_editor(df, ed, Upper(sel.selected_column))]
                     /\ IF button[s]
                        THEN /\ pc' = [pc EXCEPT ![s] = "submit"]
                             /\ UNCHANGED outcome
                        ELSE /\ pc' = [pc EXCEPT ![s] = "tab2"]
                             /\ outcome' = [outcome EXCEPT ![s] = "displayed"]
    /\ UNCHANGED <<storeVars, query_params, button, session_state, selected_module,
                   module_tables_df, changed_rows, row_i, last_updated>>

\* ------------------------------------------------- "Submit Updates" handler
SubmitFrame ==
    <<noStmtVars, query_params, button, table_choice, editor, selected_module,
      module_tables_df, selected_table, target_table_name, selected_column,
      source_df, edited_df, log>>

\* lines 224-225: the comparison of line 196 raised, the handler reports it
SubmitRaisesSilently(s) ==
    /\ ~SameLabels(edited_df[s], source_df[s])
    /\ outcome' = [outcome EXCEPT ![s] = "no_changes"]
    /\ pc' = [pc EXCEPT ![s] = "tab2"]
    /\ UNCHANGED <<session_state, changed_rows, row_i, last_updated>>
SubmitRaises(s) ==
    /\ ~SameLabels(edited_df[s], source_df[s])
    /\ outcome' = [outcome EXCEPT ![s] = "error"]
    /\ pc' = [pc EXCEPT ![s] = "tab2"]
    /\ UNCHANGED <<session_state, changed_rows, row_i, last_updated>>

\* lines 222-223: st.info("No changes were made.")
NoChangesStamped(s) ==
    /\ SameLabels(edited_df[s], source_df[s])
    /\ ChangedRows(edited_df[s], source_df[s], Upper(selected_column[s])) = << >>
    /\ outcome' = [outcome EXCEPT ![s] = "no_changes"]
    /\ pc' = [pc EXCEPT ![s] = "tab2"]
    /\ session_state' = [session_state EXCEPT ![s] = {clock}]
    /\ UNCHANGED <<changed_rows, row_i, last_updated>>
NoChanges(s) ==
    /\ SameLabels(edited_df[s], source_df[s])
    /\ ChangedRows(edited_df[s], source_df[s], Upper(selected_column[s])) = << >>
    /\ outcome' = [outcome EXCEPT ![s] = "no_changes"]
    /\ pc' = [pc EXCEPT ![s] = "tab2"]
    /\ UNCHANGED <<session_state, changed_rows, row_i, last_updated>>

\* lines 196-202: there are changed rows; the timestamp is taken and the loop
\* over them begins
StartWriting(s) ==
    /\ SameLabels(edited_df[s], source_df[s])
    /\ LET changed == ChangedRows(edited_df[s], source_df[s], Upper(selected_column[s]))
       IN /\ changed # << >>
          /\ changed_rows' = [changed_rows EXCEPT ![s] = changed]
    /\ row_i' = [row_i EXCEPT ![s] = 1]
    /\ last_updated' = [last_updated EXCEPT ![s] = clock]
    /\ pc' = [pc EXCEPT ![s] = "update"]
    /\ UNCHANGED <<session_state, outcome>>

\* lines 193-200 and 222-225
Submit(s) ==
    /\ pc[s] = "submit"
    /\ (SubmitRaises(s) \/ NoChanges(s) \/ StartWriting(s))
    /\ UNCHANGED SubmitFrame

\* lines 203-210 with update_source_table_row, lines 60-75: the statement is
\* built from the edited row; an error of the store is reported and swallowed
UpdateRowAborting(s) ==
    /\ pc[s] = "update"
    /\ LET row == changed_rows[s][row_i[s]].row
           primary_key_values ==
               [c \in {primary_key_cols(selected_table[s])[j] :
                          j \in 1..Len(primary_key_cols(selected_table[s]))} |->
                   PyStr(row[c])]
           new_value == row[Upper(selected_column[s])]
       IN \E ok \in BOOLEAN :
             /\ log' = [log EXCEPT ![s] =
                          Append(@, Stmt("UPDATE", selected_table[s], ok, row_i[s]))]
             /\ stmt_failed' = (stmt_failed \/ ~ok)
             /\ IF ok
                THEN /\ db' = [db EXCEPT ![selected_table[s]] =
                                 SqlUpdate(@, selected_column[s], PyStr(new_value),
                                           primary_key_values)]
                     /\ pc' = [pc EXCEPT ![s] = "insert"]
                     /\ UNCHANGED outcome
                ELSE /\ UNCHANGED db
                     /\ pc' = [pc EXCEPT ![s] = "tab2"]
                     /\ outcome' = [outcome EXCEPT ![s] = "error"]
    /\ UNCHANGED <<clock, widgetVars, button, runVars>>
UpdateRowRetrying(s) ==
    /\ pc[s] = "update"
    /\ LET row == changed_rows[s][row_i[s]].row
           primary_key_values ==
               [c \in {primary_key_cols(selected_table[s])[j] :
                          j \in 1..Len(primary_key_cols(selected_table[s]))} |->
                   PyStr(row[c])]
           new_value == row[Upper(selected_column[s])]
       IN \E ok \in BOOLEAN :
             /\ log' = [log EXCEPT ![s] =
                          Append(@, Stmt("UPDATE", selected_table[s], ok, row_i[s]))]
             /\ stmt_failed' = (stmt_failed \/ ~ok)
             /\ IF ok
                THEN /\ db' = [db EXCEPT ![selected_table[s]] =
                                 SqlUpdate(@, selected_column[s], PyStr(new_value),
                                           primary_key_values)]
                     /\ pc' = [pc EXCEPT ![s] = "insert"]
                ELSE /\ UNCHANGED db
                     /\ pc' = [pc EXCEPT ![s] = "update"]
    /\ UNCHANGED <<clock, widgetVars, button, runVars, outcome>>
UpdateRow(s) ==
    /\ pc[s] = "update"
    /\ LET row == changed_rows[s][row_i[s]].row
           primary_key_values ==
               [c \in {primary_key_cols(selected_table[s])[j] :
                          j \in 1..Len(primary_key_cols(selected_table[s]))} |->
                   PyStr(row[c])]
           new_value == row[Upper(selected_column[s])]
       IN \E ok \in BOOLEAN :
             /\ log' = [log EXCEPT ![s] =
                          Append(@, Stmt("UPDATE", selected_table[s], ok, row_i[s]))]
             /\ stmt_failed' = (stmt_failed \/ ~ok)
             /\ IF ok
                THEN db' = [db EXCEPT ![selected_table[s]] =
                              SqlUpdate(@, selected_column[s], PyStr(new_value),
                                        primary_key_values)]
                ELSE UNCHANGED db
    /\ pc' = [pc EXCEPT ![s] = "insert"]
    /\ UNCHANGED <<clock, widgetVars, button, runVars, outcome>>

\* lines 212-216 with insert_into_target_table, lines 78-93; then the next
\* changed row, or the end of the loop
InsertRowAsFetched(s) ==
    /\ pc[s] = "insert"
    /\ LET row_data == source_df[s][changed_rows[s][row_i[s]].idx]
           values == [c \in DOMAIN row_data |-> PyStr(row_data[c])]
       IN \E ok \in BOOLEAN :
             /\ log' = [log EXCEPT ![s] =
                          Append(@, Stmt("INSERT", target_table_name[s], ok, row_i[s]))]
             /\ stmt_failed' = (stmt_failed \/ ~ok)
             /\ IF ok
                THEN /\ db' = [db EXCEPT ![target_table_name[s]] =
                                 SqlInsert(@, values, clock)]
                     /\ clock' = clock + 1
                ELSE UNCHANGED <<db, clock>>
    /\ IF row_i[s] < Len(changed_rows[s])
       THEN /\ row_i' = [row_i EXCEPT ![s] = @ + 1]
            /\ pc' = [pc EXCEPT ![s] = "update"]
       ELSE /\ pc' = [pc EXCEPT ![s] = "report"]
            /\ UNCHANGED row_i
    /\ UNCHANGED <<widgetVars, button, selected_module, module_tables_df,
                   selected_table, target_table_name, selected_column, source_df,
                   edited_df, changed_rows, last_updated, outcome>>
InsertRowRollingBack(s) ==
    /\ pc[s] = "insert"
    /\ LET row_data == changed_rows[s][row_i[s]].row
           values == [c \in DOMAIN row_data |-> PyStr(row_data[c])]
       IN \E ok \in BOOLEAN :
             /\ log' = [log EXCEPT ![s] =
                          Append(@, Stmt("INSERT", target_table_name[s], ok, row_i[s]))]
             /\ stmt_failed' = (stmt_failed \/ ~ok)
             /\ IF ok
                THEN /\ db' = [db EXCEPT ![target_table_name[s]] =
                                 SqlInsert(@, values, clock)]
                     /\ clock' = clock + 1
                ELSE /\ db' = [db EXCEPT ![selected_table[s]] = source_df[s]]
                     /\ UNCHANGED clock
    /\ IF row_i[s] < Len(changed_rows[s])
       THEN /\ row_i' = [row_i EXCEPT ![s] = @ + 1]
            /\ pc' = [pc EXCEPT ![s] = "update"]
       ELSE /\ pc' = [pc EXCEPT ![s] = "report"]
            /\ UNCHANGED row_i
    /\ UNCHANGED <<widgetVars, button, selected_module, module_tables_df,
                   selected_table, target_table_name, selected_column, source_df,
                   edited_df, changed_rows, last_updated, outcome>>
InsertRow(s) ==
    /\ pc[s] = "insert"
    /\ LET row_data == changed_rows[s][row_i[s]].row
           values == [c \in DOMAIN row_data |-> PyStr(row_data[c])]
       IN \E ok \in BOOLEAN :
             /\ log' = [log EXCEPT ![s] =
                          Append(@, Stmt("INSERT", target_table_name[s], ok, row_i[s]))]
             /\ stmt_failed' = (stmt_failed \/ ~ok)
             /\ IF ok
                THEN /\ db' = [db EXCEPT ![target_table_name[s]] =
                                 SqlInsert(@, values, clock)]
                     /\ clock' = clock + 1
                ELSE UNCHANGED <<db, clock>>
    /\ IF row_i[s] < Len(changed_rows[s])
       THEN /\ row_i' = [row_i EXCEPT ![s] = @ + 1]
            /\ pc' = [pc EXCEPT ![s] = "update"]
       ELSE /\ pc' = [pc EXCEPT ![s] = "report"]
            /\ UNCHANGED row_i
    /\ UNCHANGED <<widgetVars, button, selected_module, module_tables_df,
                   selected_table, target_table_name, selected_column, source_df,
                   edited_df, changed_rows, last_updated, outcome>>

\* lines 218-221: after the loop
Report(s) ==
    /\ pc[s] = "report"
    /\ outcome' = [outcome EXCEPT ![s] = "success"]
    /\ session_state' = [session_state EXCEPT ![s] = {last_updated[s]}]
    /\ pc' = [pc EXCEPT ![s] = "tab2"]
    /\ UNCHANGED <<noStmtVars, query_params, table_choice, editor, button, runVars, log>>

\* lines 229-237, then the footer of lines 241-247: the run is over
FetchTarget(s) ==
    /\ pc[s] = "tab2"
    /\ \E ok \in BOOLEAN :
          /\ log' = [log EXCEPT ![s] = Append(@, Stmt("SELECT", target_table_name[s], ok, 0))]
          /\ stmt_failed' = (stmt_failed \/ ~ok)
    /\ pc' = [pc EXCEPT ![s] = "idle"]
    /\ UNCHANGED <<storeVars, widgetVars, button, runVars, outcome>>

\* ------------------------------------------------------------------ Next
Step(s) ==
    \/ UserSelectsTable(s)
    \/ UserEditsCell(s)
    \/ UserAddsRow(s)
    \/ UserDeletesRow(s)
    \/ UserClicksSubmit(s)
    \/ ModuleRejected(s)
    \/ FetchCatalog(s)
    \/ KeyUnknown(s)
    \/ FetchSource(s)
    \/ Submit(s)
    \/ UpdateRow(s)
    \/ InsertRow(s)
    \/ Report(s)
    \/ FetchTarget(s)

Next == Step("s1")

Spec == Init /\ [][Next]_vars

\* --------------------------------------------- change detection on its own
\* The states in which "Submit Updates" has been clicked and the handler is
\* about to compare the grid with the frame it was given: every frame of
\* SourceInits with a row, each editable column, every state of the grid
\* (cells overwritten or cleared, a row added, rows deleted).
DetectEditors(n, col) ==
    [key : {<<"fact_orders", col>>},
     edited_rows : {f \in [1..MaxRows -> TypedValues("s1", Upper(col))
                                           \cup TypedValues("s2", Upper(col))
                                           \cup {NULL, NoEdit}] :
                       \A i \in 1..MaxRows : i > n => f[i] = NoEdit},
     added_rows : 0..1,
     deleted_rows : SUBSET (1..n)]

InitDetect ==
    \E src \in SourceInits \ {<< >>} :
    \E m \in {1, 2} :
       LET df == fetch_override_ref_data(CatalogRows, m)
           sel == Selection(df, "fact_orders")
       IN \E ed \in DetectEditors(Len(src), sel.selected_column) :
          /\ db = [t \in TableNames |->
                     CASE t = "Override_Ref" -> CatalogRows
                       [] t = "fact_orders" -> src
                       [] OTHER -> << >>]
          /\ clock = 1
          /\ stmt_failed = FALSE
          /\ query_params = [s \in Sessions |->
                IF s = "s1" THEN [present |-> TRUE, text |-> IF m = 1 THEN <<"1">> ELSE <<"2">>]
                ELSE [present |-> FALSE, text |-> << >>]]
          /\ pc = [s \in Sessions |-> IF s = "s1" THEN "submit" ELSE "closed"]
          /\ button = [s \in Sessions |-> s = "s1"]
          /\ table_choice = [s \in Sessions |-> IF s = "s1" THEN "fact_orders" ELSE ""]
          /\ editor = [s \in Sessions |-> IF s = "s1" THEN ed ELSE EmptyEditor]
          /\ session_state = [s \in Sessions |-> {}]
          /\ selected_module = [s \in Sessions |-> IF s = "s1" THEN m ELSE 0]
          /\ module_tables_df = [s \in Sessions |-> IF s = "s1" THEN df ELSE << >>]
          /\ selected_table = [s \in Sessions |-> IF s = "s1" THEN "fact_orders" ELSE ""]
          /\ target_table_name =
                [s \in Sessions |-> IF s = "s1" THEN sel.target_table_name ELSE ""]
          /\ selected_column =
                [s \in Sessions |-> IF s = "s1" THEN sel.selected_column ELSE ""]
          /\ source_df = [s \in Sessions |-> IF s = "s1" THEN src ELSE << >>]
          /\ edited_df = [s \in Sessions |->
                IF s = "s1" THEN data_editor(src, ed, Upper(sel.selected_column))
                ELSE << >>]
          /\ changed_rows = [s \in Sessions |-> << >>]
          /\ row_i = [s \in Sessions |-> 1]
          /\ last_updated = [s \in Sessions |-> 0]
          /\ log = [s \in Sessions |->
                IF s = "s1" THEN <<Stmt("SELECT", "Override_Ref", TRUE, 0),
                                   Stmt("SELECT", "fact_orders", TRUE, 0)>>
                ELSE << >>]
          /\ outcome = [s \in Sessions |-> "running"]

NextDetect == Submit("s1")

SpecDetect == InitDetect /\ [][NextDetect]_vars

\* ------------------------------------------- two sessions on one source table
\* One analyst, or two analysts in sessions of their own, open module 2
\* (fact_orders, editable column amount); each overwrites the amount with a
\* value of their own and submits.  The statements of the two runs reach the
\* store in any order: nothing in src/app.py coordinates them.
RaceTable == <<SourceRow("S1", "A", "10")>>
RaceParam == [present |-> TRUE, text |-> <<"2">>]

InitRace ==
    \E Open \in {{"s1"}, {"s1", "s2"}} :
       /\ InitOpen(Open)
       /\ db["fact_orders"] = RaceTable
       /\ \A s \in Open : query_params[s] = RaceParam

StepRace(s) ==
    \/ UserEditsCell(s)
    \/ UserClicksSubmit(s)
    \/ FetchCatalog(s)
    \/ FetchSource(s)
    \/ Submit(s)
    \/ UpdateRow(s)
    \/ InsertRow(s)
    \/ Report(s)
    \/ FetchTarget(s)

NextRace == \E s \in Sessions : StepRace(s)

SpecRace == InitRace /\ [][NextRace]_vars

\* ================================================================ claims
Last(q) == q[Len(q)]
Writes(q) == {i \in 1..Len(q) : q[i].op \in {"UPDATE", "INSERT"}}
IsPrefix(p, q) == Len(p) <= Len(q) /\ SubSeq(q, 1, Len(p)) = p

\* the changed row a run is writing, the row it was fetched as, and whether
\* the user put a value into it that differs from the value fetched
Current(s) == changed_rows[s][row_i[s]]
Edited(s, e) ==
    LET col == Upper(selected_column[s])
    IN /\ e.row[col] # NULL
       /\ source_df[s][e.idx][col] # NULL
       /\ e.row[col] # source_df[s][e.idx][col]

\* C1: after the UPDATE of an edited row has completed without error, the
\* source row with that row's key (its key columns other than the editable
\* one, which the update itself rewrites) holds the new value in the editable
\* column.
C1_SourceShowsNewValue ==
    \A s \in Sessions :
       (pc[s] = "insert" /\ Last(log[s]).ok /\ Edited(s, Current(s))) =>
          LET col == Upper(selected_column[s])
              orig == source_df[s][Current(s).idx]
              rows == db[selected_table[s]]
          IN \A k \in 1..Len(rows) :
                (\A c \in PrimaryKey \ {col} : rows[k][c] = orig[c])
                   => rows[k][col] = Current(s).row[col]

\* C2: the target tables are append-only: every step leaves each row of a
\* target table in place and unchanged, and no run issues a statement other
\* than an INSERT (or the read of the second tab) against a target table.
C2_TargetAppendOnly ==
    /\ [][\A t \in TargetTableNames : IsPrefix(db[t], db'[t])]_vars
    /\ [](\A s \in Sessions : \A i \in 1..Len(log[s]) :
             log[s][i].table \in TargetTableNames
                => log[s][i].op \in {"INSERT", "SELECT"})

C2_Witness ==
    /\ Len(db["fact_orders_override"]) = 2
    /\ \E i \in 1..Len(log["s1"]) : log["s1"][i].op = "UPDATE" /\ ~log["s1"][i].ok

\* C3: after the INSERT of an edited row has completed without error, the
\* last row of the target table is the row as fetched from the source with
\* the new value in the editable column, the store's timestamp of the insert
\* and the flag "O".
C3_TargetGainsOriginalRow ==
    \A s \in Sessions :
       (/\ pc[s] \in {"update", "report"}
        /\ Last(log[s]).op = "INSERT" /\ Last(log[s]).ok
        /\ Edited(s, changed_rows[s][Last(log[s]).row])) =>
          LET col == Upper(selected_column[s])
              e == changed_rows[s][Last(log[s]).row]
              orig == source_df[s][e.idx]
              rows == db[target_table_name[s]]
          IN /\ rows # << >>
             /\ Last(rows) = [data |-> [orig EXCEPT ![col] = e.row[col]],
                              AS_AT_DATE |-> clock - 1, RECORD_FLAG |-> "O"]

\* C4: change detection is exact: the rows the handler takes as changed are
\* the rows of the grid whose editable value differs from the value fetched
\* at the same position, and none when no value differs.
ExactChanges(s) ==
    LET col == Upper(selected_column[s])
        differs(e) == e.row[col] # source_df[s][e.idx][col]
    IN SelectSeq(edited_df[s], differs)
C4_DetectionExact ==
    \A s \in Sessions :
       SameLabels(edited_df[s], source_df[s]) =>
          /\ pc[s] = "update" => changed_rows[s] = ExactChanges(s)
          /\ outcome[s] = "no_changes" => ExactChanges(s) = << >>

\* C5: a submit in which no changed row is found reports "no changes", goes
\* on to the display of the tables, writes nothing to the store and leaves
\* the session's last-updated value as it was; its run issues reads only.
C5_NoChangesNoWrites ==
    /\ [][\A s \in Sessions :
            (/\ pc[s] = "submit" /\ pc'[s] # "submit"
             /\ SameLabels(edited_df[s], source_df[s])
             /\ ChangedRows(edited_df[s], source_df[s], Upper(selected_column[s])) = << >>)
            => /\ outcome'[s] = "no_changes" /\ pc'[s] = "tab2"
               /\ db' = db /\ log'[s] = log[s]
               /\ session_state'[s] = session_state[s]]_vars
    /\ [](\A s \in Sessions : outcome[s] = "no_changes" => Writes(log[s]) = {})

C5_Witness ==
    /\ pc["s1"] = "idle" /\ outcome["s1"] = "no_changes"
    /\ button["s1"] /\ EditorShown("s1")

\* C6: when the module parameter is an integer and the catalog was read, the
\* catalog entries the run works with are the entries of that module.
C6_FilteredByModule ==
    \A s \in Sessions :
       (/\ query_params[s].present /\ IsIntLiteral(query_params[s].text)
        /\ log[s] # << >> /\ log[s][1].ok) =>
          module_tables_df[s] = Filter(db["Override_Ref"], PyInt(query_params[s].text))

\* C7: a run for a module without catalog entries stops after the catalog
\* read: it reads no source or target table and writes nothing.
C7_UnknownModuleHalts ==
    \A s \in Sessions :
       (/\ query_params[s].present /\ IsIntLiteral(query_params[s].text)
        /\ Filter(db["Override_Ref"], PyInt(query_params[s].text)) = << >>) =>
          /\ pc[s] \in {"params", "idle"}
          /\ \A i \in 1..Len(log[s]) :
                log[s][i].op = "SELECT" /\ log[s][i].table = "Override_Ref"

\* C8: a run whose selected table has no registered primary key stops there:
\* the only statement it has issued is the catalog read.
C8_UnknownTableHalts ==
    \A s \in Sessions :
       (selected_table[s] # "" /\ selected_table[s] \notin RegisteredTables) =>
          /\ pc[s] = "idle" /\ outcome[s] = "no_pk"
          /\ \A i \in 1..Len(log[s]) :
                log[s][i].op = "SELECT" /\ log[s][i].table = "Override_Ref"

C8_Witness ==
    /\ selected_table["s1"] = "fact_trades" /\ outcome["s1"] = "no_pk"
    /\ Len(log["s1"]) = 1

\* C9: once the write loop of a submit is over, the UPDATE and the INSERT of
\* every changed row have been issued, whichever of them failed.
LoopOver(s) == changed_rows[s] # << >> /\ pc[s] \notin {"update", "insert"}
C9_EveryRowAttempted ==
    \A s \in Sessions :
       LoopOver(s) =>
          \A k \in 1..Len(changed_rows[s]) :
             /\ \E i \in 1..Len(log[s]) : log[s][i].op = "UPDATE" /\ log[s][i].row = k
             /\ \E i \in 1..Len(log[s]) : log[s][i].op = "INSERT" /\ log[s][i].row = k

C9_Witness ==
    /\ LoopOver("s1")
    /\ \E i, j, k \in Writes(log["s1"]) :
          /\ log["s1"][i].op = "UPDATE" /\ ~log["s1"][i].ok
          /\ log["s1"][j].op = "INSERT" /\ ~log["s1"][j].ok
          /\ log["s1"][k].row > log["s1"][i].row
          /\ log["s1"][k].row > log["s1"][j].row

\* C10: a submit is reported as a success only when the UPDATE and the INSERT
\* of every changed row completed.
C10_SuccessMeansAllCompleted ==
    \A s \in Sessions :
       outcome[s] = "success" => \A i \in Writes(log[s]) : log[s][i].ok

\* C11: no run ends in an exception that nothing catches: whatever the module
\* parameter, the catalog and the failures of the store, a run that is over
\* has ended normally or with a message of the page.
C11_NoUncaughtFault ==
    \A s \in Sessions : outcome[s] # "uncaught"

\* C12: the writes of one submit are, in this order and each exactly once,
\* the UPDATE of the source table and the INSERT into the target table of the
\* first changed row, then those of the second, and so on in the order of
\* detection (the order of the grid); a failed statement is not issued again.
WriteSeq(q) == LET isWrite(st) == st.op \in {"UPDATE", "INSERT"} IN SelectSeq(q, isWrite)
WritesDue(s) ==
    CASE pc[s] = "update" -> 2 * (row_i[s] - 1)
      [] pc[s] = "insert" -> 2 * row_i[s] - 1
      [] OTHER -> 2 * Len(changed_rows[s])
C12_WritesInOrderOnce ==
    \A s \in Sessions :
       LET w == WriteSeq(log[s]) IN
       /\ Len(w) = WritesDue(s)
       /\ \A j \in 1..Len(w) :
             /\ w[j].row = (j + 1) \div 2
             /\ w[j].op = IF j % 2 = 1 THEN "UPDATE" ELSE "INSERT"
             /\ w[j].table = IF j % 2 = 1 THEN selected_table[s] ELSE target_table_name[s]
       /\ \A k \in 1..(Len(changed_rows[s]) - 1) :
             changed_rows[s][k].idx < changed_rows[s][k + 1].idx

C12_Witness ==
    /\ LoopOver("s1") /\ Len(changed_rows["s1"]) = 2
    /\ Len(WriteSeq(log["s1"])) = 4
    /\ ~WriteSeq(log["s1"])[1].ok /\ ~WriteSeq(log["s1"])[4].ok

\* C13: nothing is persisted before the write loop: a step taken while no
\* run is inside the loop leaves every table of the store (source tables,
\* target tables, catalog) as it was, and a run that stopped at the module
\* parameter, the catalog, the primary key or the source read, or that only
\* displayed the grid, has issued no UPDATE and no INSERT.
C13_NoEffectBeforeWriting ==
    /\ [][(\A s \in Sessions : pc[s] \notin {"update", "insert"}) => db' = db]_vars
    /\ [](\A s \in Sessions :
             outcome[s] \in {"no_module", "invalid_module", "uncaught", "unknown_module",
                             "no_pk", "no_data", "displayed"}
                => Writes(log[s]) = {})

C13_Witness ==
    /\ pc["s1"] = "idle" /\ outcome["s1"] = "displayed"
    /\ \E i \in 1..MaxRows : editor["s1"].edited_rows[i] # NoEdit
    /\ db["fact_orders"] = source_df["s1"]

\* C14: no rollback: while a submit is being written and after it, every
\* INSERT of it that completed has its row in the target table and every
\* UPDATE of it that completed (on a column that is not part of the key) has
\* its value in the source row, whatever failed afterwards; a run issues no
\* statement other than its reads and the UPDATE and INSERT of its rows.
C14_NoRollback ==
    \A s \in Sessions : \A i \in 1..Len(log[s]) :
       LET st == log[s][i]
           col == Upper(selected_column[s])
       IN /\ st.op \in {"SELECT", "UPDATE", "INSERT"}
          /\ (st.op = "INSERT" /\ st.ok) =>
                \E k \in 1..Len(db[target_table_name[s]]) :
                   db[target_table_name[s]][k].data =
                      [c \in Columns |-> PyStr(changed_rows[s][st.row].row[c])]
          /\ (st.op = "UPDATE" /\ st.ok /\ col \notin PrimaryKey) =>
                \A k \in 1..Len(db[selected_table[s]]) :
                   (\A c \in PrimaryKey :
                       db[selected_table[s]][k][c] = PyStr(changed_rows[s][st.row].row[c]))
                      => db[selected_table[s]][k][col]
                            = PyStr(changed_rows[s][st.row].row[col])

C14_Witness ==
    /\ LoopOver("s1") /\ Upper(selected_column["s1"]) = "AMOUNT"
    /\ \E i, j \in Writes(log["s1"]) :
          /\ log["s1"][i].op = "UPDATE" /\ log["s1"][i].ok /\ log["s1"][i].row = 1
          /\ log["s1"][j].row = 2 /\ ~log["s1"][j].ok
    /\ db["fact_orders"][changed_rows["s1"][1].idx]["AMOUNT"]
          # source_df["s1"][changed_rows["s1"][1].idx]["AMOUNT"]

\* C15: the last-updated value of a session changes only in a submit in which
\* a write completed: a submit whose UPDATEs and INSERTs all failed leaves it
\* as it was.
C15_LastUpdatedOnlyAfterSuccess ==
    [][\A s \in Sessions :
          session_state'[s] # session_state[s]
             => \E i \in Writes(log[s]) : log[s][i].ok]_vars

\* C17: a submit whose grid has more or fewer rows than the frame fetched is
\* reported as an error of the comparison: it leaves the store and the
\* last-updated value as they were and its run issues no UPDATE and no INSERT.
C17_RowCountMismatchIsError ==
    /\ [][\A s \in Sessions :
            (/\ pc[s] = "submit" /\ pc'[s] # "submit"
             /\ Len(edited_df[s]) # Len(source_df[s]))
            => /\ outcome'[s] = "error" /\ pc'[s] = "tab2"
               /\ db' = db /\ log'[s] = log[s]
               /\ session_state'[s] = session_state[s]]_vars
    /\ [](\A s \in Sessions :
             (button[s] /\ Len(edited_df[s]) # Len(source_df[s])) =>
                /\ pc[s] \in {"submit", "tab2", "idle"}
                /\ pc[s] # "submit" => outcome[s] = "error"
                /\ Writes(log[s]) = {})

C17_Witness ==
    /\ pc["s1"] = "idle" /\ outcome["s1"] = "error"
    /\ Len(edited_df["s1"]) > Len(source_df["s1"])
    /\ \E i \in 1..MaxRows : editor["s1"].edited_rows[i] # NoEdit

\* the catalog's pairs of source and target table whose editable column is
\* not part of the primary key, the override records of a source row's key
\* and the most recent of them
Overridable ==
    {e \in {CatalogRows[i] : i \in 1..Len(CatalogRows)} :
        Upper(e.EDITABLE_COLUMN) \notin PrimaryKey}
Records(e, row) ==
    {j \in 1..Len(db[e.TARGET_TABLE]) :
        \A c \in PrimaryKey : db[e.TARGET_TABLE][j].data[c] = row[c]}
Latest(e, row) ==
    CHOOSE j \in Records(e, row) :
       \A i \in Records(e, row) :
          db[e.TARGET_TABLE][i].AS_AT_DATE <= db[e.TARGET_TABLE][j].AS_AT_DATE
Quiet == \A s \in Sessions : pc[s] \in {"idle", "closed"}

====
